---- MODULE Spec2Model ----
(***************************************************************************)
(* Usdt0ProtocolEvm: the bridge protocol adapter of                        *)
(* wdk-protocol-bridge-usdt0-evm.  The repository carries four successive  *)
(* implementations of the class (all in src/unnamed/part_002):             *)
(*   "approve"   lines  309-671   approve + send, BigInt, chain id cache   *)
(*   "requote"   lines  673-1026  bridge() quotes, then rebuilds and sends *)
(*   "noapprove" lines 1028-1352  send only, source /= target check        *)
(*   "parallel"  lines 1354-1705  Promise.all for the two legs             *)
(* The adapter is built from one of them (impl) over one wallet account;   *)
(* calls run as asynchronous functions whose steps are the code between    *)
(* two awaits.                                                             *)
(***************************************************************************)
EXTENDS Integers, Sequences, FiniteSets, TLC

None == <<>>
Some(x) == <<x>>
IsSome(o) == o /= <<>>
Val(o) == o[1]

(***************************************************************************)
(* Chain registry                                                          *)
(***************************************************************************)
BLOCKCHAINS ==
  [ ethereum  |-> [ oftContract |-> "0x6C96dE32CEa08842dcc4058c14d3aaAD7Fa41dee",
                    legacyMeshContract |-> "0x811ed79dB9D34E83BDB73DF6c3e07961Cfb0D5c0",
                    xautOftContract |-> "0xb9c2321BB7D0Db468f570D10A424d1Cc8EFd696C",
                    transactionValueHelper |-> "",
                    eid |-> 30101, chainId |-> 1 ],
    arbitrum  |-> [ oftContract |-> "0x14E4A1B13bf7F943c8ff7C51fb60FA964A298D92",
                    legacyMeshContract |-> "0x238A52455a1EF6C987CaC94b28B4081aFE50ba06",
                    xautOftContract |-> "0xf40542a7B66AD7C68C459EE3679635D2fDB6dF39",
                    transactionValueHelper |-> "0xa90f03c856D01F698E7071B393387cd75a8a319A",
                    eid |-> 30110, chainId |-> 42161 ],
    polygon   |-> [ oftContract |-> "",
                    legacyMeshContract |-> "",
                    xautOftContract |-> "0x5421Cf4288d8007D3c43AC4246eaFCe5b049e352",
                    transactionValueHelper |-> "",
                    eid |-> 30109, chainId |-> 137 ],
    berachain |-> [ oftContract |-> "0x779Ded0c9e1022225f8E0630b35a9b54bE713736",
                    legacyMeshContract |-> "",
                    xautOftContract |-> "",
                    transactionValueHelper |-> "",
                    eid |-> 30362, chainId |-> 80094 ],
    ink       |-> [ oftContract |-> "0x0200C29006150606B650577BBE7B6248F58470c1",
                    legacyMeshContract |-> "",
                    xautOftContract |-> "",
                    transactionValueHelper |-> "",
                    eid |-> 30339, chainId |-> 57073 ],
    ton       |-> [ oftContract |-> "",
                    legacyMeshContract |-> "",
                    xautOftContract |-> "",
                    transactionValueHelper |-> "",
                    eid |-> 30343, chainId |-> 30343 ],
    tron      |-> [ oftContract |-> "",
                    legacyMeshContract |-> "",
                    xautOftContract |-> "",
                    transactionValueHelper |-> "",
                    eid |-> 30420, chainId |-> 728126428 ] ]

ChainNames == DOMAIN BLOCKCHAINS

\* for (const key of ['oftContract', 'legacyMeshContract', 'xautOftContract'])
ContractKeys == << "oftContract", "legacyMeshContract", "xautOftContract" >>

FEE_TOLERANCE == 999

ERC_4337_FEE_BUFFER == 1100

(***************************************************************************)
(* The implementations and what tells them apart                           *)
(***************************************************************************)
Impls == { "approve", "requote", "noapprove", "parallel" }

\* this._chainId memoizes the source chain id
HasChainIdCache(i) == i \in { "approve", "noapprove" }

\* the operation carries an approval leg next to the bridge-send leg
HasApproveTx(i) == i /= "noapprove"

\* bridge() starts with the instanceof check of the account
ChecksAccountType(i) == i /= "requote"

\* amounts and fees are BigInt (integer division), not Number
UsesBigInt(i) == i \in { "approve", "noapprove" }

(***************************************************************************)
(* Wallet accounts: the four classes and their instanceof relations.       *)
(* WalletAccountEvm extends WalletAccountReadOnlyEvm and                   *)
(* WalletAccountEvmErc4337 extends WalletAccountReadOnlyEvmErc4337.        *)
(***************************************************************************)
AccountKinds == { "WalletAccountEvm", "WalletAccountEvmErc4337",
                  "WalletAccountReadOnlyEvm", "WalletAccountReadOnlyEvmErc4337" }

InstanceOfWalletAccountEvm(k) == k = "WalletAccountEvm"

InstanceOfWalletAccountEvmErc4337(k) == k = "WalletAccountEvmErc4337"

InstanceOfWalletAccountReadOnlyEvmErc4337(k) ==
  k \in { "WalletAccountEvmErc4337", "WalletAccountReadOnlyEvmErc4337" }

\* only the two executable classes have a sendTransaction method
HasSendTransaction(k) == k \in { "WalletAccountEvm", "WalletAccountEvmErc4337" }

USER_ADDRESS == "0xa460AEbce0d3A4BecAd8ccf9D6D4861296c503Bd"

(***************************************************************************)
(* Tokens.  The caller names the token in lower case, the bridge contracts *)
(* answer token() in checksum case.                                        *)
(***************************************************************************)
TOKEN == "0xFd086bC7CD5C481DCC9C85ebE478A1C0b69FCbb9"

TokenLower == "0xfd086bc7cd5c481dcc9c85ebe478a1c0b69fcbb9"

OTHER_TOKEN == "0x68749665FF8D2d112Fa859AA293F07A622782F38"

OtherTokenLower == "0x68749665ff8d2d112fa859aa293f07a622782f38"

toLowerCase(s) ==
  CASE s = TOKEN -> TokenLower
    [] s = OTHER_TOKEN -> OtherTokenLower
    [] OTHER -> s

(***************************************************************************)
(* Recipients and their encoding (Address.parse, TronWeb.address.toHex and *)
(* addressToBytes32 reject a string that is no address of the family).     *)
(***************************************************************************)
TON_RECIPIENT == "UQDHMVv2BWBhqBdLIVkuAl_JFQCzN_MihUQK1njmLw5XM8FP"

TRON_RECIPIENT == "TRaE66C8RRyjjWXvVMPLJMXNTwy7jSfRA7"

\* the recipient decodes for the family of the target chain
Decodes(targetChain, recipient) ==
  CASE targetChain = "ton"  -> recipient = TON_RECIPIENT
    [] targetChain = "tron" -> recipient = TRON_RECIPIENT
    [] OTHER                -> recipient = USER_ADDRESS

\* the 32-byte value of a recipient that decodes
EncodeRecipient(targetChain, recipient) ==
  CASE targetChain = "ton"  -> "0x:Address.parse(UQDHMVv2BWBhqBdLIVkuAl_JFQCzN_MihUQK1njmLw5XM8FP).toRawString().slice(2)"
    [] targetChain = "tron" -> "addressToBytes32(0x:TronWeb.address.toHex(TRaE66C8RRyjjWXvVMPLJMXNTwy7jSfRA7))"
    [] OTHER                -> "0x000000000000000000000000a460aebce0d3a4becad8ccf9d6d4861296c503bd"

(***************************************************************************)
(* Numbers.  A BigInt quotient truncates; a Number quotient is kept as the *)
(* exact fraction [num, den].                                              *)
(***************************************************************************)
Frac(n, d) == IF n % d = 0 THEN [num |-> n \div d, den |-> 1] ELSE [num |-> n, den |-> d]

\* minAmountLD of the send parameter
MinAmountLD(i, amount) ==
  IF UsesBigInt(i)
    THEN Frac((amount * FEE_TOLERANCE) \div 1000, 1)   \* amount * FEE_TOLERANCE / 1_000n
    ELSE Frac(amount * 999, 1000)                       \* (amount * 999) / 1000, amount * 0.999

\* an approval for the amount and the quoted fee, with no buffer on top
ApproveAmount4337NoBuffer(i, amount, bridgeFee) == amount + bridgeFee

\* the amount the approval of the account-abstraction path approves
ApproveAmount4337(i, amount, bridgeFee) ==
  IF UsesBigInt(i)
    THEN amount + ((bridgeFee * ERC_4337_FEE_BUFFER) \div 1000)
    ELSE (10 * amount + 11 * bridgeFee + 9) \div 10     \* Math.ceil(amount + fee * 1.1)

BuildOftSendParam(i, targetChain, recipient, amount) ==
  [ dstEid       |-> BLOCKCHAINS[targetChain].eid,
    to           |-> EncodeRecipient(targetChain, recipient),
    amountLD     |-> amount,
    minAmountLD  |-> MinAmountLD(i, amount),
    extraOptions |-> "0x0003",
    composeMsg   |-> "0x",
    oftCmd       |-> "0x" ]

(***************************************************************************)
(* Transactions.  encodeFunctionData is the function name with its         *)
(* arguments; the Number implementations add the from field.               *)
(***************************************************************************)
Tx(i, from, to, value, data) ==
  IF UsesBigInt(i)
    THEN [ to |-> to, value |-> value, data |-> data ]
    ELSE [ from |-> from, to |-> to, value |-> value, data |-> data ]

ApproveTx(i, from, token, spender, amount) ==
  Tx(i, from, token, 0, [ fn |-> "approve", spender |-> spender, amount |-> amount ])

\* oftContract.send(sendParam, fee, refundAddress), value nativeFee
OftSendTx(i, from, oftContract, sendParam, nativeFee) ==
  Tx(i, from, oftContract, nativeFee,
     [ fn |-> "send", sendParam |-> sendParam,
       fee |-> [ nativeFee |-> nativeFee, lzTokenFee |-> 0 ], refundAddress |-> from ])

\* transactionValueHelper.send(oftContract, sendParam, fee), value 0
HelperSendTx(i, from, helper, oftContract, sendParam, nativeFee) ==
  Tx(i, from, helper, 0,
     [ fn |-> "send", oft |-> oftContract, sendParam |-> sendParam,
       fee |-> [ nativeFee |-> nativeFee, lzTokenFee |-> 0 ] ])

(***************************************************************************)
(* The maximum-fee guard of bridge()                                       *)
(***************************************************************************)
\* config ?? this._config
Coalesce(callConfig, adapterConfig) ==
  IF IsSome(callConfig) THEN Val(callConfig) ELSE adapterConfig

\* a guard that reads the construction ceiling only, whatever the call passes
BridgeMaxFeeConstructionOnly(i, kind, adapterConfig, callConfig) ==
  adapterConfig.bridgeMaxFee

\* the bridgeMaxFee the guard reads
BridgeMaxFee(i, kind, adapterConfig, callConfig) ==
  CASE i = "parallel" -> Coalesce(callConfig, adapterConfig).bridgeMaxFee
    [] i = "requote"  -> adapterConfig.bridgeMaxFee
    [] OTHER -> IF InstanceOfWalletAccountEvmErc4337(kind)
                  THEN Coalesce(callConfig, adapterConfig).bridgeMaxFee
                  ELSE adapterConfig.bridgeMaxFee

\* the guard throws 'Exceeded maximum fee cost for bridge operation.'
ExceedsMaxFee(i, bridgeMaxFee, fee, bridgeFee) ==
  CASE i = "parallel" -> IsSome(bridgeMaxFee) /\ Val(bridgeMaxFee) /= 0
                           /\ fee + bridgeFee > Val(bridgeMaxFee)
    [] i = "requote"  -> IsSome(bridgeMaxFee) /\ Val(bridgeMaxFee) > fee
    [] OTHER          -> IsSome(bridgeMaxFee) /\ fee + bridgeFee >= Val(bridgeMaxFee)

(***************************************************************************)
(* Bounds and input samples                                                *)
(***************************************************************************)
\* every fee a collaborator answers (simulation, nativeFee, helper quote,
\* fee paid) lies in 0..MaxFee
MaxFee == 1

Fees == 0 .. MaxFee

CallIds == { 1, 2 }

\* chain ids the connected network may report: arbitrum, polygon, and 10,
\* which no registry entry has
Networks == { 42161, 137, 10 }

\* (targetChain, recipient) of the calls: evm targets, the source chain itself
\* when on arbitrum, ton, a recipient that does not decode, an unknown chain
Routes ==
  { << "ethereum", USER_ADDRESS >>, << "arbitrum", USER_ADDRESS >>,
    << "ton", TON_RECIPIENT >>, << "ethereum", TON_RECIPIENT >>,
    << "solana", USER_ADDRESS >> }

Amounts == { 100 }

\* bridgeMaxFee given at construction
AdapterConfigs == { [ bridgeMaxFee |-> m ] : m \in { None, Some(0), Some(1) } }

\* the per-call config of bridge()
BridgeConfigs ==
  { None,
    Some([ paymasterToken |-> Some("USDT"), bridgeMaxFee |-> None ]),
    Some([ paymasterToken |-> None, bridgeMaxFee |-> Some(0) ]),
    Some([ paymasterToken |-> None, bridgeMaxFee |-> Some(2) ]) }

\* the per-call config of quoteBridge()
QuoteConfigs ==
  { None, Some([ paymasterToken |-> Some("USDT"), bridgeMaxFee |-> None ]) }

BridgeOptions ==
  { [ targetChain |-> r[1], recipient |-> r[2], token |-> TokenLower, amount |-> a ] :
      r \in Routes, a \in Amounts }

(***************************************************************************)
(* State                                                                   *)
(***************************************************************************)
VARIABLES
  impl,      \* the implementation the adapter is built from
  account,   \* this._account: [kind, provider] (account._config.provider set or not)
  config,    \* this._config
  chainId,   \* this._chainId
  network,   \* the chain id provider.getNetwork() reports
  bound,     \* the contract keys of the source chain whose token() is TOKEN
  calls      \* the calls of quoteBridge()/bridge(): position, locals, journal

vars == << impl, account, config, chainId, network, bound, calls >>

NoResult == << >>

NoError == [ kind |-> "", arg |-> "" ]

NoOptions == [ targetChain |-> "", recipient |-> "", token |-> "", amount |-> 0 ]

\* a call: pc is the await it is suspended at; log, simulated, sent and receipts
\* are the journal of what it asked of its collaborators
IdleCall ==
  [ pc |-> "idle", op |-> "", options |-> NoOptions, config |-> None, phase |-> 1,
    source |-> "", key |-> 1, oftContract |-> "", address |-> "",
    sendParam |-> None, helper |-> "", nativeFee |-> None, bridgeFee |-> None,
    approveTx |-> None, oftTx |-> None, fee |-> None, quoted |-> None,
    step |-> 1, simFees |-> << >>, simulated |-> << >>, sent |-> << >>,
    inflight |-> {}, receipts |-> << >>, log |-> << >>,
    outcome |-> [ status |-> "none", error |-> NoError, result |-> NoResult ] ]

\* the source chain entry of a chain id (null when no entry has it)
SourceChain(id) ==
  IF \E n \in ChainNames : BLOCKCHAINS[n].chainId = id
    THEN CHOOSE n \in ChainNames : BLOCKCHAINS[n].chainId = id
    ELSE ""

\* the contract keys the entry of a chain defines
DefinedKeys(id) ==
  IF SourceChain(id) = "" THEN {}
  ELSE { ContractKeys[k] : k \in { j \in 1..3 : BLOCKCHAINS[SourceChain(id)][ContractKeys[j]] /= "" } }

Init ==
  /\ impl \in Impls
  /\ account \in [ kind : AccountKinds, provider : BOOLEAN ]
  /\ config \in AdapterConfigs
  /\ chainId = None
  /\ network \in Networks
  /\ bound \in { b \in SUBSET DefinedKeys(network) :
                   Cardinality(b) <= 1 \/ b = DefinedKeys(network) }
  /\ (~account.provider => network = 42161 /\ bound = {})   \* no connection: nothing answers
  /\ calls = [ c \in CallIds |-> IdleCall ]

(***************************************************************************)
(* Steps of a call, as functions from its record to its next record        *)
(***************************************************************************)
Log(rec, call, target) ==
  [ rec EXCEPT !.log = Append(@, [ call |-> call, target |-> target ]) ]

Throw(rec, kind, arg) ==
  [ rec EXCEPT !.pc = "done",
               !.outcome = [ status |-> "threw", error |-> [ kind |-> kind, arg |-> arg ],
                             result |-> NoResult ] ]

Return(rec, result) ==
  [ rec EXCEPT !.pc = "done",
               !.outcome = [ status |-> "returned", error |-> NoError, result |-> result ] ]

\* the same two checks with the provider examined first
BridgeEntryErrorProviderFirst(i, kind, provider) ==
  CASE ~provider -> "NoProvider"
    [] provider /\ ChecksAccountType(i) /\ ~InstanceOfWalletAccountEvm(kind)
         /\ ~InstanceOfWalletAccountEvmErc4337(kind) -> "UnsupportedAccountType"
    [] OTHER -> ""

\* the checks bridge() makes before its first await: the error thrown, or ""
BridgeEntryError(i, kind, provider) ==
  CASE ChecksAccountType(i) /\ ~InstanceOfWalletAccountEvm(kind)
         /\ ~InstanceOfWalletAccountEvmErc4337(kind) -> "UnsupportedAccountType"
    [] ~provider -> "NoProvider"
    [] OTHER -> ""

\* a quoteBridge() that does not look at the provider
QuoteEntryErrorUnchecked(i, kind, provider) == ""

\* the check quoteBridge() makes before its first await
QuoteEntryError(i, kind, provider) ==
  IF ~provider THEN "NoProvider" ELSE ""

\* _getBridgeTransactions, to the call of the resolver
EnterGetBridgeTransactions(i, rec) ==
  IF UsesBigInt(i)
    THEN [ Log(rec, "getAddress", "account") EXCEPT !.address = USER_ADDRESS, !.pc = "resolve" ]
    ELSE [ rec EXCEPT !.pc = "resolve" ]

\* a resolver that probes the primary contract whatever the target chain is
NextCandidateNoSkip(src, targetChain, from) ==
  LET eligible == { k \in from .. 3 : BLOCKCHAINS[src][ContractKeys[k]] /= "" }
  IN IF eligible = {} THEN 0 ELSE CHOOSE k \in eligible : \A j \in eligible : k <= j

\* a resolver that probes the candidates from the last kind backwards
NextCandidateLastFirst(src, targetChain, from) ==
  LET eligible == { k \in from .. 3 :
                      /\ ~(ContractKeys[k] = "oftContract" /\ targetChain \in { "ton", "tron" })
                      /\ BLOCKCHAINS[src][ContractKeys[k]] /= "" }
  IN IF eligible = {} THEN 0 ELSE CHOOSE k \in eligible : \A j \in eligible : k >= j

\* the first key from position `from` on that the resolver probes, 0 if none
NextCandidate(src, targetChain, from) ==
  LET eligible == { k \in from .. 3 :
                      /\ ~(ContractKeys[k] = "oftContract" /\ targetChain \in { "ton", "tron" })
                      /\ BLOCKCHAINS[src][ContractKeys[k]] /= "" }
  IN IF eligible = {} THEN 0 ELSE CHOOSE k \in eligible : \A j \in eligible : k <= j

\* a resolver that settles for the last contract probed when none matches
ProbeLastResort(i, rec, from) ==
  LET k == NextCandidate(rec.source, rec.options.targetChain, from)
  IN CASE k = 0 /\ from = 1 -> Throw(rec, "UnsupportedToken", rec.options.token)
       [] k = 0 /\ from > 1 ->
            [ Log([ rec EXCEPT !.oftContract = BLOCKCHAINS[rec.source][ContractKeys[rec.key]] ],
                  "quoteSend", BLOCKCHAINS[rec.source][ContractKeys[rec.key]])
                EXCEPT !.pc = "oftQuoteSend" ]
       [] OTHER -> [ Log(rec, "token", BLOCKCHAINS[rec.source][ContractKeys[k]])
                       EXCEPT !.key = k, !.pc = "probe" ]

\* the resolver's loop from key `from`: the next token() read, or no match
Probe(i, rec, from) ==
  LET k == NextCandidate(rec.source, rec.options.targetChain, from)
  IN IF k = 0
       THEN Throw(rec, "UnsupportedToken", rec.options.token)
       ELSE [ Log(rec, "token", BLOCKCHAINS[rec.source][ContractKeys[k]])
                EXCEPT !.key = k, !.pc = "probe" ]

\* the resolver once the source chain id is known
AfterChainId(i, rec, id) ==
  LET src == SourceChain(id)
      t   == rec.options.targetChain
  IN CASE src = "" ->
            IF UsesBigInt(i)
              THEN Throw(rec, "TypeError", "configuration.chainId")   \* configuration is null
              ELSE Throw(rec, "UnsupportedChain", ToString(id))
       [] src /= "" /\ i = "requote" /\ t \notin ChainNames ->
            Throw(rec, "UnsupportedChain", t)
       [] src /= "" /\ i = "noapprove" /\ BLOCKCHAINS[src].chainId = BLOCKCHAINS[t].chainId ->
            Throw(rec, "InvalidTarget", t)
       [] OTHER -> Probe(i, [ rec EXCEPT !.source = src ], 1)

InvokeOftQuoteSend(rec) ==
  [ Log(rec, "quoteSend", rec.oftContract) EXCEPT !.pc = "oftQuoteSend" ]

\* _getTransactionValueHelperContract once the source chain id is known
HelperLookup(i, rec, id) ==
  LET src == SourceChain(id)
  IN CASE src = "" ->
            IF UsesBigInt(i)
              THEN Throw(rec, "TypeError", "configuration.chainId")
              ELSE Throw(rec, "UnsupportedChain", ToString(id))
       [] src /= "" /\ BLOCKCHAINS[src].transactionValueHelper = "" ->
            Throw(rec, "UnsupportedOperation", ToString(id))
       [] OTHER ->
            InvokeOftQuoteSend([ rec EXCEPT !.helper = BLOCKCHAINS[src].transactionValueHelper ])

\* _getBridgeTransactions from the resolved bridge contract to its next await
AfterResolve(i, kind, cache, rec, oftContract) ==
  LET t  == rec.options.targetChain
      r1 == [ rec EXCEPT !.oftContract = oftContract ]
      r2 == [ r1 EXCEPT !.sendParam =
                Some(BuildOftSendParam(i, t, rec.options.recipient, rec.options.amount)) ]
      r3 == IF UsesBigInt(i) THEN r2
            ELSE [ Log(r2, "getAddress", "account") EXCEPT !.address = USER_ADDRESS ]
  IN CASE ~Decodes(t, rec.options.recipient) ->
            Throw(r1, "InvalidRecipient", rec.options.recipient)
       [] Decodes(t, rec.options.recipient) /\ ~InstanceOfWalletAccountEvmErc4337(kind) ->
            InvokeOftQuoteSend(r3)
       [] OTHER ->
            IF HasChainIdCache(i) /\ IsSome(cache)
              THEN HelperLookup(i, r3, Val(cache))
              ELSE [ Log(r3, "getNetwork", "provider") EXCEPT !.pc = "awaitHelperNetwork" ]

(***************************************************************************)
(* Wallet calls: what is simulated, what is submitted, and in which order   *)
(***************************************************************************)
\* whether the simulation takes the bundle path
QuoteBundled(i, op, kind) ==
  IF UsesBigInt(i) /\ op = "quoteBridge"
    THEN InstanceOfWalletAccountReadOnlyEvmErc4337(kind)
    ELSE InstanceOfWalletAccountEvmErc4337(kind)

\* whether the submission is one bundle
SendBundled(i, kind) == InstanceOfWalletAccountEvmErc4337(kind)

\* the wallet calls of one path, grouped by what is started before anything
\* is awaited: each group is awaited in full before the next one is started
Groups(i, bundled) ==
  CASE bundled           -> << <<"bundle">> >>
    [] ~bundled /\ i = "noapprove" -> << <<"oftTx">> >>
    [] ~bundled /\ i = "parallel"  -> << <<"approveTx", "oftTx">> >>
    [] OTHER             -> << <<"approveTx">>, <<"oftTx">> >>

\* a bundle with the bridge-send ahead of the approval
BundleTxsSendFirst(rec) ==
  IF IsSome(rec.approveTx) THEN << Val(rec.oftTx), Val(rec.approveTx) >>
                           ELSE << Val(rec.oftTx) >>

BundleTxs(rec) ==
  IF IsSome(rec.approveTx) THEN << Val(rec.approveTx), Val(rec.oftTx) >>
                           ELSE << Val(rec.oftTx) >>

\* the transactions handed to the wallet for one leg
LegTxs(rec, leg) ==
  CASE leg = "bundle"    -> BundleTxs(rec)
    [] leg = "approveTx" -> << Val(rec.approveTx) >>
    [] OTHER             -> << Val(rec.oftTx) >>

\* the second argument of quoteSendTransaction
QuoteConfigArg(i, leg, callConfig) ==
  IF UsesBigInt(i) /\ leg = "bundle" THEN callConfig ELSE None

\* the second argument of sendTransaction
SendConfigArg(i, leg, adapterConfig, callConfig) ==
  CASE leg /= "bundle" -> None
    [] leg = "bundle" /\ UsesBigInt(i) -> callConfig
    [] leg = "bundle" /\ i = "parallel" ->
         LET pm == IF IsSome(callConfig) THEN Val(callConfig).paymasterToken ELSE None
         IN IF IsSome(pm) THEN Some([ paymasterToken |-> pm ]) ELSE None
    [] OTHER -> None

RECURSIVE LogAll(_, _, _)
LogAll(rec, call, legs) ==
  IF legs = << >> THEN rec
  ELSE LogAll(Log(rec, call, Head(legs)), call, Tail(legs))

\* what the wallet is handed for each leg of a group, cfgs[k] next to legs[k]
Payloads(rec, legs, cfgs) ==
  [ k \in 1 .. Len(legs) |->
      [ leg |-> legs[k], txs |-> LegTxs(rec, legs[k]), config |-> cfgs[k] ] ]

\* start the simulations of group g
InvokeSimulate(i, kind, rec, g) ==
  LET legs == Groups(i, QuoteBundled(i, rec.op, kind))[g]
      cfg  == [ k \in 1 .. Len(legs) |-> QuoteConfigArg(i, legs[k], rec.config) ]
  IN [ LogAll(rec, "quoteSendTransaction", legs)
         EXCEPT !.pc = "simulate", !.step = g,
                !.simulated = @ \o Payloads(rec, legs, cfg) ]

\* start the submissions of group g
InvokeSend(i, kind, adapterConfig, rec, g) ==
  LET legs == Groups(i, SendBundled(i, kind))[g]
      cfg  == [ k \in 1 .. Len(legs) |-> SendConfigArg(i, legs[k], adapterConfig, rec.config) ]
  IN IF ~HasSendTransaction(kind)
       THEN Throw(rec, "TypeError", "sendTransaction")   \* not a function on a read-only account
       ELSE [ LogAll(rec, "sendTransaction", legs)
                EXCEPT !.pc = "awaitSend", !.step = g,
                       !.sent = @ \o Payloads(rec, legs, cfg),
                       !.inflight = { legs[k] : k \in 1 .. Len(legs) } ]

\* _getBridgeTransactions has returned
AfterBuild(i, kind, adapterConfig, rec) ==
  IF i = "requote" /\ rec.op = "bridge" /\ rec.phase = 2
    THEN InvokeSend(i, kind, adapterConfig, rec, 1)
    ELSE InvokeSimulate(i, kind, rec, 1)

\* the hash the wallet answers for a leg
HashOf(leg) ==
  CASE leg = "approveTx" -> "dummy-approve-hash"
    [] leg = "oftTx"     -> "dummy-bridge-hash"
    [] OTHER             -> "dummy-user-operation-hash"

\* the hash received for a leg
Receipt(rec, leg) ==
  LET k == CHOOSE k \in 1 .. Len(rec.receipts) : rec.receipts[k].leg = leg
  IN rec.receipts[k].hash

\* a result whose two hashes of the standard flow are exchanged
BridgeResultSwapped(i, kind, rec) ==
  LET q == Val(rec.quoted)
  IN CASE SendBundled(i, kind) ->
            [ hash |-> Receipt(rec, "bundle"), fee |-> q.fee, bridgeFee |-> q.bridgeFee ]
       [] ~SendBundled(i, kind) /\ i = "noapprove" ->
            [ hash |-> Receipt(rec, "oftTx"), fee |-> q.fee, bridgeFee |-> q.bridgeFee ]
       [] ~SendBundled(i, kind) /\ i = "approve" ->
            [ approveHash |-> Receipt(rec, "oftTx"), hash |-> Receipt(rec, "approveTx"),
              fee |-> q.fee, bridgeFee |-> q.bridgeFee ]
       [] OTHER ->
            [ hash |-> Receipt(rec, "approveTx"), fee |-> q.fee, bridgeFee |-> q.bridgeFee,
              approvalHash |-> Receipt(rec, "oftTx") ]

\* what bridge() returns
BridgeResult(i, kind, rec) ==
  LET q == Val(rec.quoted)
  IN CASE SendBundled(i, kind) ->
            [ hash |-> Receipt(rec, "bundle"), fee |-> q.fee, bridgeFee |-> q.bridgeFee ]
       [] ~SendBundled(i, kind) /\ i = "noapprove" ->
            [ hash |-> Receipt(rec, "oftTx"), fee |-> q.fee, bridgeFee |-> q.bridgeFee ]
       [] ~SendBundled(i, kind) /\ i = "approve" ->
            [ approveHash |-> Receipt(rec, "approveTx"), hash |-> Receipt(rec, "oftTx"),
              fee |-> q.fee, bridgeFee |-> q.bridgeFee ]
       [] OTHER ->
            [ hash |-> Receipt(rec, "oftTx"), fee |-> q.fee, bridgeFee |-> q.bridgeFee,
              approvalHash |-> Receipt(rec, "approveTx") ]

\* a quoteBridge() that goes on to submit what it simulated
AfterSimulateQuoteSubmits(i, kind, adapterConfig, rec) ==
  LET fee == rec.simFees[1] + (IF Len(rec.simFees) > 1 THEN rec.simFees[2] ELSE 0)
      bf  == Val(rec.bridgeFee)
      r   == [ rec EXCEPT !.fee = Some(fee), !.quoted = Some([ fee |-> fee, bridgeFee |-> bf ]) ]
      max == BridgeMaxFee(i, kind, adapterConfig, rec.config)
  IN CASE rec.op = "bridge" /\ ExceedsMaxFee(i, max, fee, bf) -> Throw(r, "FeeExceeded", "")
       [] rec.op = "bridge" /\ ~ExceedsMaxFee(i, max, fee, bf) /\ i = "requote" ->
            [ r EXCEPT !.phase = 2, !.pc = "resolve" ]
       [] OTHER -> InvokeSend(i, kind, adapterConfig, r, 1)

\* a bridge() that compares against the ceiling after starting to submit
AfterSimulateChecksLate(i, kind, adapterConfig, rec) ==
  LET fee == rec.simFees[1] + (IF Len(rec.simFees) > 1 THEN rec.simFees[2] ELSE 0)
      bf  == Val(rec.bridgeFee)
      r   == [ rec EXCEPT !.fee = Some(fee), !.quoted = Some([ fee |-> fee, bridgeFee |-> bf ]) ]
      max == BridgeMaxFee(i, kind, adapterConfig, rec.config)
  IN CASE rec.op = "quoteBridge" -> Return(r, [ fee |-> fee, bridgeFee |-> bf ])
       [] rec.op = "bridge" /\ ExceedsMaxFee(i, max, fee, bf) ->
            Throw(InvokeSend(i, kind, adapterConfig, r, 1), "FeeExceeded", "")
       [] rec.op = "bridge" /\ ~ExceedsMaxFee(i, max, fee, bf) /\ i = "requote" ->
            [ r EXCEPT !.phase = 2, !.pc = "resolve" ]
       [] OTHER -> InvokeSend(i, kind, adapterConfig, r, 1)

\* the simulations are in: quoteBridge returns, bridge checks the ceiling
AfterSimulate(i, kind, adapterConfig, rec) ==
  LET fee == rec.simFees[1] + (IF Len(rec.simFees) > 1 THEN rec.simFees[2] ELSE 0)
      bf  == Val(rec.bridgeFee)
      r   == [ rec EXCEPT !.fee = Some(fee), !.quoted = Some([ fee |-> fee, bridgeFee |-> bf ]) ]
      max == BridgeMaxFee(i, kind, adapterConfig, rec.config)
  IN CASE rec.op = "quoteBridge" -> Return(r, [ fee |-> fee, bridgeFee |-> bf ])
       [] rec.op = "bridge" /\ ExceedsMaxFee(i, max, fee, bf) -> Throw(r, "FeeExceeded", "")
       [] rec.op = "bridge" /\ ~ExceedsMaxFee(i, max, fee, bf) /\ i = "requote" ->
            [ r EXCEPT !.phase = 2, !.pc = "resolve" ]
       [] OTHER -> InvokeSend(i, kind, adapterConfig, r, 1)

(***************************************************************************)
(* Actions: a call starts, or resumes from the await it is suspended at     *)
(***************************************************************************)
Advance(c, new) ==
  /\ calls' = [ calls EXCEPT ![c] = new ]
  /\ UNCHANGED << impl, account, config, network, bound >>

QuoteBridge(c, options, callConfig) ==
  /\ calls[c].pc = "idle"
  /\ LET rec == [ IdleCall EXCEPT !.op = "quoteBridge", !.options = options, !.config = callConfig ]
         err == QuoteEntryError(impl, account.kind, account.provider)
     IN Advance(c, IF err /= "" THEN Throw(rec, err, "")
                   ELSE EnterGetBridgeTransactions(impl, rec))
  /\ UNCHANGED chainId

Bridge(c, options, callConfig) ==
  /\ calls[c].pc = "idle"
  /\ LET rec == [ IdleCall EXCEPT !.op = "bridge", !.options = options, !.config = callConfig ]
         err == BridgeEntryError(impl, account.kind, account.provider)
     IN Advance(c, IF err /= "" THEN Throw(rec, err, "")
                   ELSE EnterGetBridgeTransactions(impl, rec))
  /\ UNCHANGED chainId

\* a resolver that asks the provider for the chain id on every resolution
ResolveChainAlwaysQueries(c) ==
  /\ calls[c].pc = "resolve"
  /\ LET rec == calls[c]
         t   == rec.options.targetChain
     IN Advance(c,
          CASE impl /= "requote" /\ t \notin ChainNames -> Throw(rec, "UnsupportedChain", t)
            [] OTHER -> [ Log(rec, "getNetwork", "provider") EXCEPT !.pc = "awaitNetwork" ])
  /\ UNCHANGED chainId

\* a resolver that asks for the chain id before it looks at the target chain
ResolveChainNetworkFirst(c) ==
  /\ calls[c].pc = "resolve"
  /\ LET rec == calls[c]
         t   == rec.options.targetChain
     IN Advance(c,
          CASE HasChainIdCache(impl) /\ IsSome(chainId) /\ Val(chainId) /= 0 ->
                 IF impl /= "requote" /\ t \notin ChainNames
                   THEN Throw(rec, "UnsupportedChain", t)
                   ELSE AfterChainId(impl, rec, Val(chainId))
            [] OTHER -> [ Log(rec, "getNetwork", "provider") EXCEPT !.pc = "awaitNetwork" ])
  /\ UNCHANGED chainId

\* the resolver up to its request for the chain id
ResolveChain(c) ==
  /\ calls[c].pc = "resolve"
  /\ LET rec == calls[c]
         t   == rec.options.targetChain
     IN Advance(c,
          CASE impl /= "requote" /\ t \notin ChainNames -> Throw(rec, "UnsupportedChain", t)
            [] (impl = "requote" \/ t \in ChainNames)
                 /\ HasChainIdCache(impl) /\ IsSome(chainId) /\ Val(chainId) /= 0 ->
                 AfterChainId(impl, rec, Val(chainId))
            [] OTHER -> [ Log(rec, "getNetwork", "provider") EXCEPT !.pc = "awaitNetwork" ])
  /\ UNCHANGED chainId

\* a resolver that memoizes the chain id of the target it was asked for
GetNetworkReturnsCachesTarget(c) ==
  /\ calls[c].pc = "awaitNetwork"
  /\ chainId' = IF HasChainIdCache(impl)
                  THEN Some(BLOCKCHAINS[calls[c].options.targetChain].chainId)
                  ELSE chainId
  /\ Advance(c, AfterChainId(impl, calls[c], network))

\* provider.getNetwork() answers the resolver
GetNetworkReturns(c) ==
  /\ calls[c].pc = "awaitNetwork"
  /\ chainId' = IF HasChainIdCache(impl) THEN Some(network) ELSE chainId
  /\ Advance(c, AfterChainId(impl, calls[c], network))

\* contract.token() answers for the candidate probed
TokenReturns(c) ==
  /\ calls[c].pc = "probe"
  /\ LET rec  == calls[c]
         key  == ContractKeys[rec.key]
         contractToken == IF key \in bound THEN TOKEN ELSE OTHER_TOKEN
     IN Advance(c,
          IF toLowerCase(contractToken) = toLowerCase(rec.options.token)
            THEN AfterResolve(impl, account.kind, chainId, rec, BLOCKCHAINS[rec.source][key])
            ELSE Probe(impl, rec, rec.key + 1))
  /\ UNCHANGED chainId

\* provider.getNetwork() answers the lookup of the helper contract
HelperNetworkReturns(c) ==
  /\ calls[c].pc = "awaitHelperNetwork"
  /\ chainId' = IF HasChainIdCache(impl) THEN Some(network) ELSE chainId
  /\ Advance(c, HelperLookup(impl, calls[c], network))

\* oftContract.quoteSend() answers
OftQuoteSendReturns(c, nativeFee) ==
  /\ calls[c].pc = "oftQuoteSend"
  /\ LET rec == calls[c]
         o   == rec.options
         sp  == Val(rec.sendParam)
     IN Advance(c,
          IF InstanceOfWalletAccountEvmErc4337(account.kind)
            THEN [ Log(rec, "quoteSend", rec.helper)
                     EXCEPT !.nativeFee = Some(nativeFee), !.pc = "helperQuoteSend" ]
            ELSE AfterBuild(impl, account.kind, config,
                   [ rec EXCEPT
                       !.nativeFee = Some(nativeFee),
                       !.bridgeFee = Some(nativeFee),
                       !.approveTx = IF HasApproveTx(impl)
                                       THEN Some(ApproveTx(impl, rec.address, o.token,
                                                           rec.oftContract, o.amount))
                                       ELSE None,
                       !.oftTx = Some(OftSendTx(impl, rec.address, rec.oftContract, sp,
                                                nativeFee)) ]))
  /\ UNCHANGED chainId

\* transactionValueHelper.quoteSend() answers
HelperQuoteSendReturns(c, quote) ==
  /\ calls[c].pc = "helperQuoteSend"
  /\ LET rec == calls[c]
         o   == rec.options
         sp  == Val(rec.sendParam)
     IN Advance(c,
          AfterBuild(impl, account.kind, config,
            [ rec EXCEPT
                !.bridgeFee = Some(quote),
                !.approveTx = IF HasApproveTx(impl)
                                THEN Some(ApproveTx(impl, rec.address, o.token, rec.helper,
                                                    ApproveAmount4337(impl, o.amount, quote)))
                                ELSE None,
                !.oftTx = Some(HelperSendTx(impl, rec.address, rec.helper, rec.oftContract,
                                            sp, Val(rec.nativeFee))) ]))
  /\ UNCHANGED chainId

\* the simulations of the current group answer
SimulateReturns(c, fees) ==
  /\ calls[c].pc = "simulate"
  /\ LET rec    == calls[c]
         groups == Groups(impl, QuoteBundled(impl, rec.op, account.kind))
     IN /\ Len(fees) = Len(groups[rec.step])
        /\ LET r == [ rec EXCEPT !.simFees = @ \o fees ]
           IN Advance(c,
                IF rec.step < Len(groups)
                  THEN InvokeSimulate(impl, account.kind, r, rec.step + 1)
                  ELSE AfterSimulate(impl, account.kind, config, r))
  /\ UNCHANGED chainId

\* one submission in flight settles
SendReturns(c, leg, ok, paid) ==
  /\ calls[c].pc = "awaitSend"
  /\ leg \in calls[c].inflight
  /\ LET rec    == calls[c]
         groups == Groups(impl, SendBundled(impl, account.kind))
         r      == [ rec EXCEPT !.inflight = @ \ { leg } ]
         got    == [ r EXCEPT !.receipts = Append(@, [ leg |-> leg, hash |-> HashOf(leg),
                                                       fee |-> paid ]) ]
     IN Advance(c,
          CASE ~ok -> Throw(r, "WalletError", leg)
            [] ok /\ got.inflight /= {} -> got
            [] ok /\ got.inflight = {} /\ rec.step < Len(groups) ->
                 InvokeSend(impl, account.kind, config, got, rec.step + 1)
            [] OTHER -> Return(got, BridgeResult(impl, account.kind, got)))
  /\ UNCHANGED chainId

\* the caller has taken the outcome of a settled call; nothing of the call is
\* left but what it wrote to the adapter
Settled(c) ==
  /\ calls[c].pc = "done"
  /\ calls' = [ calls EXCEPT ![c] = IdleCall ]
  /\ UNCHANGED << impl, account, config, chainId, network, bound >>

FeeSeqs == { << f >> : f \in Fees } \cup { << f, g >> : f \in Fees, g \in Fees }

Step(c) ==
  \/ \E o \in BridgeOptions, k \in QuoteConfigs : QuoteBridge(c, o, k)
  \/ \E o \in BridgeOptions, k \in BridgeConfigs : Bridge(c, o, k)
  \/ ResolveChain(c)
  \/ GetNetworkReturns(c)
  \/ TokenReturns(c)
  \/ HelperNetworkReturns(c)
  \/ \E f \in Fees : OftQuoteSendReturns(c, f)
  \/ \E f \in Fees : HelperQuoteSendReturns(c, f)
  \/ \E fs \in FeeSeqs : SimulateReturns(c, fs)
  \/ \E leg \in { "approveTx", "oftTx", "bundle" }, ok \in BOOLEAN, f \in Fees :
       SendReturns(c, leg, ok, f)
  \/ Settled(c)

\* one call at a time
Next == Step(1)

Spec == Init /\ [][Next]_vars

(***************************************************************************)
(* Properties.  Each is stated for the implementations named in it.        *)
(***************************************************************************)
Threw(rec, kind) ==
  rec.pc = "done" /\ rec.outcome.status = "threw" /\ rec.outcome.error.kind = kind

Returned(rec) == rec.pc = "done" /\ rec.outcome.status = "returned"

\* the calls of one kind a call has made so far
CallCount(rec, call) ==
  Cardinality({ k \in 1 .. Len(rec.log) : rec.log[k].call = call })

\* the call has compared fee + bridgeFee with a ceiling
FeeChecked(rec) == rec.op = "bridge" /\ IsSome(rec.quoted)

Total(rec) == Val(rec.quoted).fee + Val(rec.quoted).bridgeFee

\* the per-call config carries a bridgeMaxFee
SuppliesCeiling(rec) == IsSome(rec.config) /\ IsSome(Val(rec.config).bridgeMaxFee)

\* what a ceiling max demands of a call that has reached the comparison
Enforced(rec, max) ==
  IF IsSome(max) /\ Total(rec) >= Val(max)
    THEN Threw(rec, "FeeExceeded") /\ rec.sent = << >>
    ELSE rec.sent /= << >>

\* C1: in the approve and noapprove implementations, for both executable
\* account kinds, a bridge() on an adapter constructed with a ceiling (the call
\* itself passing none) rejects with FeeExceeded and submits nothing when
\* fee + bridgeFee >= bridgeMaxFee, and goes on to submit when it is below.
C1_CeilingEnforced ==
  \A c \in CallIds :
    ( /\ impl \in { "approve", "noapprove" }
      /\ FeeChecked(calls[c])
      /\ ~SuppliesCeiling(calls[c])
      /\ IsSome(config.bridgeMaxFee) )
    => Enforced(calls[c], config.bridgeMaxFee)

\* C2: in the approve and parallel implementations, a bridge() with no per-call
\* config on an adapter constructed with bridgeMaxFee = 0 never submits, and
\* rejects with FeeExceeded once fee and bridgeFee are known, for both
\* executable account kinds.
C2_ZeroCeilingRejects ==
  \A c \in CallIds :
    ( /\ impl \in { "approve", "parallel" }
      /\ calls[c].op = "bridge"
      /\ ~IsSome(calls[c].config)
      /\ IsSome(config.bridgeMaxFee)
      /\ Val(config.bridgeMaxFee) = 0 )
    => /\ calls[c].sent = << >>
       /\ (IsSome(calls[c].quoted) => Threw(calls[c], "FeeExceeded"))

\* C3: in the approve, noapprove and parallel implementations, bridge() on a
\* read-only account (standard or account-abstraction), with or without a
\* provider and whatever the options, rejects with UnsupportedAccountType
\* before calling anything; sendTransaction is never attempted.
C3_ReadOnlyRejected ==
  \A c \in CallIds :
    ( /\ impl \in { "approve", "noapprove", "parallel" }
      /\ calls[c].op = "bridge"
      /\ ~HasSendTransaction(account.kind) )
    => /\ Threw(calls[c], "UnsupportedAccountType")
       /\ calls[c].sent = << >>
       /\ CallCount(calls[c], "sendTransaction") = 0

C3_Witness ==
  /\ impl = "approve"
  /\ account.kind = "WalletAccountReadOnlyEvmErc4337"
  /\ ~account.provider
  /\ calls[1].op = "bridge"
  /\ Threw(calls[1], "UnsupportedAccountType")

\* C4: in every implementation, with no provider configured quoteBridge(), and
\* bridge() on an executable account, reject with NoProvider without any
\* network read (chain id, token(), quoteSend) and without any
\* quoteSendTransaction or sendTransaction call.
C4_NoProviderRejected ==
  \A c \in CallIds :
    ( /\ ~account.provider
      /\ \/ calls[c].op = "quoteBridge"
         \/ calls[c].op = "bridge" /\ HasSendTransaction(account.kind) )
    => /\ Threw(calls[c], "NoProvider")
       /\ \A call \in { "getNetwork", "token", "quoteSend",
                        "quoteSendTransaction", "sendTransaction" } :
            CallCount(calls[c], call) = 0
       /\ calls[c].simulated = << >>
       /\ calls[c].sent = << >>

C4_Witness ==
  /\ impl = "approve"
  /\ ~account.provider
  /\ account.kind = "WalletAccountEvmErc4337"
  /\ calls[1].op = "quoteBridge"
  /\ Threw(calls[1], "NoProvider")

C4_WitnessBridge ==
  /\ impl = "approve"
  /\ ~account.provider
  /\ account.kind = "WalletAccountEvm"
  /\ calls[1].op = "bridge"
  /\ Threw(calls[1], "NoProvider")

\* the k-th submission of a call is the single transaction tx
SentAlone(rec, k, tx) == rec.sent[k].txs = << tx >>

\* the hash the wallet answered for the submission of a leg
HashAnswered(rec, leg, hash) ==
  \E k \in 1 .. Len(rec.receipts) :
    rec.receipts[k].leg = leg /\ rec.receipts[k].hash = hash

\* C5: in the approve implementation, a bridge() that succeeds on a standard
\* account has called sendTransaction exactly twice, first with the approval
\* transaction and then with the bridge-send transaction, and returns
\* approveHash = the hash answered for the approval and hash = the hash
\* answered for the bridge-send.
C5_TwoSubmissionsInOrder ==
  \A c \in CallIds :
    ( /\ impl = "approve"
      /\ InstanceOfWalletAccountEvm(account.kind)
      /\ calls[c].op = "bridge"
      /\ Returned(calls[c]) )
    => LET rec == calls[c]
       IN /\ CallCount(rec, "sendTransaction") = 2
          /\ Len(rec.sent) = 2
          /\ SentAlone(rec, 1, Val(rec.approveTx))
          /\ SentAlone(rec, 2, Val(rec.oftTx))
          /\ Val(rec.approveTx).data.fn = "approve"
          /\ Val(rec.oftTx).data.fn = "send"
          /\ rec.sent[1].leg = "approveTx" /\ rec.sent[2].leg = "oftTx"
          /\ HashAnswered(rec, "approveTx", rec.outcome.result.approveHash)
          /\ HashAnswered(rec, "oftTx", rec.outcome.result.hash)
          /\ rec.outcome.result.approveHash /= rec.outcome.result.hash

C5_Witness ==
  /\ impl = "approve"
  /\ InstanceOfWalletAccountEvm(account.kind)
  /\ calls[1].op = "bridge"
  /\ Returned(calls[1])
  /\ Len(calls[1].sent) = 2

\* C6: in the approve, requote and parallel implementations, a standard
\* account never has the approval and the bridge-send submission in flight at
\* the same time.
C6_SubmissionsSequential ==
  \A c \in CallIds :
    ( /\ impl \in { "approve", "requote", "parallel" }
      /\ InstanceOfWalletAccountEvm(account.kind) )
    => ~({ "approveTx", "oftTx" } \subseteq calls[c].inflight)

\* C7: in the approve, requote and parallel implementations, a bridge() that
\* succeeds on an account-abstraction account has called sendTransaction
\* exactly once, with the bundle [approval, bridge-send] in that order, and its
\* result carries no approval hash.
C7_OneBundle ==
  \A c \in CallIds :
    ( /\ impl \in { "approve", "requote", "parallel" }
      /\ InstanceOfWalletAccountEvmErc4337(account.kind)
      /\ calls[c].op = "bridge"
      /\ Returned(calls[c]) )
    => LET rec == calls[c]
       IN /\ CallCount(rec, "sendTransaction") = 1
          /\ Len(rec.sent) = 1
          /\ rec.sent[1].txs = << Val(rec.approveTx), Val(rec.oftTx) >>
          /\ Val(rec.approveTx).data.fn = "approve"
          /\ Val(rec.oftTx).data.fn = "send"
          /\ DOMAIN rec.outcome.result = { "hash", "fee", "bridgeFee" }

C7_Witness ==
  /\ impl = "approve"
  /\ InstanceOfWalletAccountEvmErc4337(account.kind)
  /\ calls[1].op = "bridge"
  /\ Returned(calls[1])
  /\ Len(calls[1].sent[1].txs) = 2

\* the fee comparison of a call came out below the ceiling the code reads
PassedCeiling(rec) ==
  /\ FeeChecked(rec)
  /\ ~ExceedsMaxFee(impl, BridgeMaxFee(impl, account.kind, config, rec.config),
                    Val(rec.quoted).fee, Val(rec.quoted).bridgeFee)

\* C8: in every implementation, no step of a quoteBridge() call invokes
\* sendTransaction, whatever the account kind and however the call ends; of the
\* adapter's state (account, config, chain-id cache) such a step changes at most
\* the chain-id cache; and a step of any call that submits is a step of
\* bridge() taken after its fee comparison has passed.
C8_QuoteSubmitsNothing ==
  [][ \A c \in CallIds :
        /\ (calls'[c].op = "quoteBridge")
             => /\ calls'[c].sent = << >>
                /\ calls'[c].inflight = {}
                /\ CallCount(calls'[c], "sendTransaction") = 0
                /\ UNCHANGED << impl, account, config >>
        /\ (calls'[c].sent /= calls[c].sent /\ calls'[c].sent /= << >>)
             => /\ calls'[c].op = "bridge"
                /\ PassedCeiling(calls'[c]) ]_vars

C8_Witness ==
  /\ impl = "approve"
  /\ account.kind = "WalletAccountEvmErc4337"
  /\ calls[1].op = "quoteBridge"
  /\ Returned(calls[1])
  /\ chainId = Some(network)

\* the errors of the checks bridge() makes (a TypeError is what the source-chain
\* check of the approve and noapprove implementations ends in)
CheckErrors ==
  { "UnsupportedAccountType", "NoProvider", "UnsupportedChain", "TypeError",
    "InvalidTarget", "UnsupportedToken", "UnsupportedOperation", "InvalidRecipient",
    "FeeExceeded" }

\* C9: in every implementation, a bridge() call in which a check has failed
\* (account type, provider, target chain, source chain, source equals target,
\* token binding, fee helper, recipient decoding, fee ceiling) has submitted
\* nothing through sendTransaction.
C9_NoPartialApplication ==
  \A c \in CallIds :
    ( /\ calls[c].op = "bridge"
      /\ calls[c].outcome.status = "threw"
      /\ calls[c].outcome.error.kind \in CheckErrors )
    => /\ calls[c].sent = << >>
       /\ CallCount(calls[c], "sendTransaction") = 0

C9_Witness ==
  /\ impl = "approve"
  /\ calls[1].op = "bridge"
  /\ Threw(calls[1], "FeeExceeded")
  /\ Len(calls[1].simulated) = 2

\* C10 as stated: in the approve implementation, for both executable account
\* kinds, when bridge()'s per-call config carries a bridgeMaxFee, that value is
\* the ceiling fee + bridgeFee is compared with.
C10_CallCeilingOverrides ==
  \A c \in CallIds :
    ( /\ impl = "approve"
      /\ FeeChecked(calls[c])
      /\ SuppliesCeiling(calls[c]) )
    => Enforced(calls[c], Val(calls[c].config).bridgeMaxFee)

\* C10 amended: in the approve and noapprove implementations, a bridgeMaxFee in
\* bridge()'s per-call config is the ceiling compared with fee + bridgeFee on
\* an account-abstraction account only; on a standard account the per-call
\* value is not read and the ceiling given at construction is compared.
C10_CallCeilingOverrides4337 ==
  \A c \in CallIds :
    ( /\ impl \in { "approve", "noapprove" }
      /\ FeeChecked(calls[c]) )
    => /\ (InstanceOfWalletAccountEvmErc4337(account.kind) /\ SuppliesCeiling(calls[c]))
            => Enforced(calls[c], Val(calls[c].config).bridgeMaxFee)
       /\ InstanceOfWalletAccountEvm(account.kind)
            => Enforced(calls[c], config.bridgeMaxFee)

C10_Witness ==
  /\ impl = "approve"
  /\ InstanceOfWalletAccountEvmErc4337(account.kind)
  /\ config.bridgeMaxFee = Some(0)
  /\ calls[1].op = "bridge"
  /\ SuppliesCeiling(calls[1])
  /\ Val(Val(calls[1].config).bridgeMaxFee) = 2
  /\ Returned(calls[1])

\* the call has passed the checks its operation makes before its first await
Entered(rec) ==
  /\ rec.op /= ""
  /\ rec.outcome.error.kind \notin { "UnsupportedAccountType", "NoProvider" }

\* the call has made none of the calls named
MadeNone(rec, names) == \A call \in names : CallCount(rec, call) = 0

\* C11: in the approve and parallel implementations, the send parameter built
\* for a call has amountLD = amount and minAmountLD = floor(amount * 999 / 1000)
\* in integer arithmetic (99 for amount 100): an integer that is at most amount.
C11_MinAmountFloor ==
  \A c \in CallIds :
    ( /\ impl \in { "approve", "parallel" }
      /\ IsSome(calls[c].sendParam) )
    => LET sp == Val(calls[c].sendParam)
           a  == calls[c].options.amount
       IN /\ sp.amountLD = a
          /\ sp.minAmountLD.den = 1
          /\ sp.minAmountLD.num = (a * 999) \div 1000
          /\ sp.minAmountLD.num <= a

\* C12: in the approve and parallel implementations, the approval built on the
\* account-abstraction path approves the fee-conversion helper (not the bridge
\* contract) for exactly ceil(amount + bridgeFee * 1.10).
C12_ApproveCeil ==
  \A c \in CallIds :
    ( /\ impl \in { "approve", "parallel" }
      /\ InstanceOfWalletAccountEvmErc4337(account.kind)
      /\ IsSome(calls[c].approveTx) )
    => LET rec == calls[c]
           d   == Val(rec.approveTx).data
       IN /\ d.fn = "approve"
          /\ d.spender = rec.helper
          /\ d.spender /= rec.oftContract
          /\ d.amount = (10 * rec.options.amount + 11 * Val(rec.bridgeFee) + 9) \div 10

\* the target chain of the call is the chain the adapter is connected to
SameChain(rec) ==
  /\ rec.options.targetChain \in ChainNames
  /\ SourceChain(network) /= ""
  /\ BLOCKCHAINS[rec.options.targetChain].chainId = BLOCKCHAINS[SourceChain(network)].chainId

\* C13: in the approve and noapprove implementations, a quoteBridge() or
\* bridge() whose target chain is the connected chain rejects with
\* InvalidTarget, and makes no token() read, no fee quote and no
\* quoteSendTransaction or sendTransaction call.
C13_SameChainRejected ==
  \A c \in CallIds :
    ( /\ impl \in { "approve", "noapprove" }
      /\ Entered(calls[c])
      /\ SameChain(calls[c]) )
    => /\ MadeNone(calls[c], { "token", "quoteSend", "quoteSendTransaction", "sendTransaction" })
       /\ (calls[c].pc = "done" => Threw(calls[c], "InvalidTarget"))

\* the target chain of the call is not in the registry
UnknownTarget(rec) == Entered(rec) /\ rec.options.targetChain \notin ChainNames

\* the call has rejected, or will reject, with the error kind naming arg
RejectsWith(rec, kind, arg) ==
  rec.pc = "done" => Threw(rec, kind) /\ rec.outcome.error.arg = arg

\* C14 as stated: in the approve, noapprove and parallel implementations, a
\* call whose target chain is not in the registry rejects with UnsupportedChain
\* naming the target, and before that makes no chain id query, no contract
\* read and no call on the wallet account (getAddress, quoteSendTransaction,
\* sendTransaction).
C14_UnknownTargetFirst ==
  \A c \in CallIds :
    (impl /= "requote" /\ UnknownTarget(calls[c]))
    => /\ calls[c].log = << >>
       /\ RejectsWith(calls[c], "UnsupportedChain", calls[c].options.targetChain)

\* C14 as the code has it: in the approve, noapprove and parallel
\* implementations, a call whose target chain is not in the registry rejects
\* with UnsupportedChain naming the target, before the chain id is queried,
\* before any contract read and before any quoteSendTransaction or
\* sendTransaction call; the one call that may precede the check is the
\* account's getAddress().
C14_UnknownTargetBeforeNetwork ==
  \A c \in CallIds :
    (impl /= "requote" /\ UnknownTarget(calls[c]))
    => /\ MadeNone(calls[c], { "getNetwork", "token", "quoteSend",
                               "quoteSendTransaction", "sendTransaction" })
       /\ RejectsWith(calls[c], "UnsupportedChain", calls[c].options.targetChain)

\* a bridge() to an unregistered chain has been rejected in the approve
\* implementation, with the address read as its only call
C14_Witness ==
  \E c \in CallIds :
    /\ impl = "approve"
    /\ calls[c].op = "bridge"
    /\ UnknownTarget(calls[c])
    /\ Threw(calls[c], "UnsupportedChain")
    /\ calls[c].outcome.error.arg = "solana"
    /\ calls[c].log = << [call |-> "getAddress", target |-> "account"] >>

\* the provider's network is not in the registry
UnknownSource(rec) == Entered(rec) /\ SourceChain(network) = ""

\* C15: in the approve implementation, a call on a network whose chain id
\* matches no registry entry (the target being registered) rejects with
\* UnsupportedChain naming the numeric chain id, and makes no contract read
\* and no quoteSendTransaction or sendTransaction call.
C15_UnknownSourceRejected ==
  \A c \in CallIds :
    ( /\ impl = "approve"
      /\ UnknownSource(calls[c])
      /\ calls[c].options.targetChain \in ChainNames )
    => /\ MadeNone(calls[c], { "token", "quoteSend", "quoteSendTransaction", "sendTransaction" })
       /\ RejectsWith(calls[c], "UnsupportedChain", ToString(network))

\* the source and target chains are registered and none of the source chain's
\* candidate contracts for the target is bound to the token asked for
NoCandidate(rec) ==
  /\ Entered(rec)
  /\ SourceChain(network) /= ""
  /\ rec.options.targetChain \in ChainNames
  /\ \A k \in 1 .. 3 :
       NextCandidate(SourceChain(network), rec.options.targetChain, k) = k
         => ContractKeys[k] \notin bound

\* C16: when no candidate bridge contract on the source chain is bound to the
\* token, the call rejects with UnsupportedToken naming the token, and makes no
\* quoteSend, no quoteSendTransaction and no sendTransaction call (in the
\* noapprove implementation a target equal to the source is rejected earlier).
C16_NoCandidateRejected ==
  \A c \in CallIds :
    ( /\ NoCandidate(calls[c])
      /\ ~(impl = "noapprove" /\ SameChain(calls[c])) )
    => /\ MadeNone(calls[c], { "quoteSend", "quoteSendTransaction", "sendTransaction" })
       /\ RejectsWith(calls[c], "UnsupportedToken", calls[c].options.token)

\* a bridge() in the approve implementation has read token() on a candidate,
\* found none bound to the token, and rejected
C16_Witness ==
  \E c \in CallIds :
    /\ impl = "approve"
    /\ calls[c].op = "bridge"
    /\ NoCandidate(calls[c])
    /\ CallCount(calls[c], "token") >= 1
    /\ Threw(calls[c], "UnsupportedToken")
    /\ calls[c].outcome.error.arg = TokenLower

\* the account is an account-abstraction account, executable or read-only
AccountAbstraction(kind) == InstanceOfWalletAccountReadOnlyEvmErc4337(kind)

\* the call runs over an account-abstraction account on a registered source
\* chain that declares no fee-conversion helper
NoHelper(rec) ==
  /\ Entered(rec)
  /\ AccountAbstraction(account.kind)
  /\ SourceChain(network) /= ""
  /\ BLOCKCHAINS[SourceChain(network)].transactionValueHelper = ""

\* C17: in the approve implementation, a call over an account-abstraction
\* account on a registered source chain without a fee-conversion helper makes
\* no quoteSend on the bridge contract or on a helper and no
\* quoteSendTransaction or sendTransaction call, and once the bridge contract
\* is resolved and the recipient decoded it rejects with UnsupportedOperation.
C17_NoHelperRejected ==
  \A c \in CallIds :
    (impl = "approve" /\ NoHelper(calls[c]))
    => /\ MadeNone(calls[c], { "quoteSend", "quoteSendTransaction", "sendTransaction" })
       /\ (calls[c].pc = "done" /\ IsSome(calls[c].sendParam)
             => Threw(calls[c], "UnsupportedOperation"))

\* the call has asked the source chain's fee-conversion helper for a quote
HelperQuoted(rec) ==
  /\ rec.helper /= ""
  /\ rec.helper = BLOCKCHAINS[SourceChain(network)].transactionValueHelper
  /\ \E k \in 1 .. Len(rec.log) : rec.log[k] = [call |-> "quoteSend", target |-> rec.helper]

\* C18: in the approve implementation, the fee a call returns is the sum of the
\* approval's and the bridge-send's simulated fees for a standard account and
\* the one bundle simulation's result for an account-abstraction account, and
\* its bridgeFee is the bridge contract's native fee for a standard account
\* and the fee-conversion helper's quote for an account-abstraction account;
\* this holds of quoteBridge() and of bridge() alike, so the two agree.
C18_QuoteComposition ==
  \A c \in CallIds :
    (impl = "approve" /\ Returned(calls[c]))
    => LET rec == calls[c]
           res == rec.outcome.result
       IN IF AccountAbstraction(account.kind)
            THEN /\ Len(rec.simFees) = 1
                 /\ res.fee = rec.simFees[1]
                 /\ HelperQuoted(rec)
                 /\ res.bridgeFee = Val(rec.bridgeFee)
            ELSE /\ Len(rec.simFees) = 2
                 /\ res.fee = rec.simFees[1] + rec.simFees[2]
                 /\ res.bridgeFee = Val(rec.nativeFee)

\* the fees sendTransaction reported for the submissions of the call
PaidFee(rec) ==
  rec.receipts[1].fee + (IF Len(rec.receipts) > 1 THEN rec.receipts[2].fee ELSE 0)

\* C19: in the approve implementation, the fee in the result of a successful
\* bridge() is the fee sendTransaction reported as paid: the bundle's fee for
\* an account-abstraction account, the sum of the two submissions' fees for a
\* standard account.
C19_FeeIsPaidFee ==
  \A c \in CallIds :
    (impl = "approve" /\ calls[c].op = "bridge" /\ Returned(calls[c]))
    => calls[c].outcome.result.fee = PaidFee(calls[c])

\* the recipient of the call does not decode for its (registered) target chain
BadRecipient(rec) ==
  /\ Entered(rec)
  /\ rec.options.targetChain \in ChainNames
  /\ ~Decodes(rec.options.targetChain, rec.options.recipient)

\* C20: in the approve implementation, a call whose recipient cannot be decoded
\* for the target chain rejects with InvalidRecipient, and no chain id query,
\* no token() read, no quoteSend and no quoteSendTransaction or
\* sendTransaction call precedes the rejection.
C20_BadRecipientFirst ==
  \A c \in CallIds :
    (impl = "approve" /\ BadRecipient(calls[c]))
    => /\ MadeNone(calls[c], { "getNetwork", "token", "quoteSend",
                               "quoteSendTransaction", "sendTransaction" })
       /\ RejectsWith(calls[c], "InvalidRecipient", calls[c].options.recipient)

\* the contracts whose token() the call has read, in the order of the reads
TokenReads(rec) ==
  LET IsTokenRead(e) == e.call = "token"
      reads == SelectSeq(rec.log, IsTokenRead)
  IN [ j \in 1 .. Len(reads) |-> reads[j].target ]

\* the candidate keys of a source chain for a target, in the fixed order
CandidateOrder(src, targetChain) ==
  LET IsCandidate(k) ==
        /\ ~(ContractKeys[k] = "oftContract" /\ targetChain \in { "ton", "tron" })
        /\ BLOCKCHAINS[src][ContractKeys[k]] /= ""
  IN SelectSeq(<< 1, 2, 3 >>, IsCandidate)

\* the call resolves a bridge contract on a registered chain for a registered target
Resolving(rec) ==
  /\ Entered(rec)
  /\ SourceChain(network) /= ""
  /\ rec.options.targetChain \in ChainNames

\* C21: the resolver reads token() on the source chain's candidates in the
\* order primary, legacy, secondary-asset, skipping kinds the chain does not
\* define, compares ignoring letter case, and returns the first match: the
\* reads are a prefix of the candidates in that order, no read follows a
\* candidate bound to the token, and the contract resolved is the earliest
\* candidate bound to it.
C21_FirstMatchInOrder ==
  \A c \in CallIds :
    (impl /= "requote" /\ Resolving(calls[c]))
    => LET rec   == calls[c]
           src   == SourceChain(network)
           order == CandidateOrder(src, rec.options.targetChain)
           reads == TokenReads(rec)
           n     == Len(reads)
       IN /\ n <= Len(order)
          /\ \A j \in 1 .. n :
               /\ reads[j] = BLOCKCHAINS[src][ContractKeys[order[j]]]
               /\ (j < n => ContractKeys[order[j]] \notin bound)
          /\ rec.oftContract /= ""
               => /\ n >= 1
                  /\ rec.oftContract = reads[n]
                  /\ ContractKeys[order[n]] \in bound

\* a call has resolved the primary contract with one token() read although
\* every candidate of the chain is bound to the token, which it asked for in
\* lower case while the contracts answer in mixed case
C21_Witness ==
  \E c \in CallIds :
    /\ impl = "approve"
    /\ network = 42161
    /\ bound = { "oftContract", "legacyMeshContract", "xautOftContract" }
    /\ calls[c].options.token /= TOKEN
    /\ calls[c].oftContract = BLOCKCHAINS["arbitrum"].oftContract
    /\ Len(TokenReads(calls[c])) = 1

\* the value of a sequence's elements, as a set
Range(seq) == { seq[j] : j \in 1 .. Len(seq) }

\* C22: for a target chain ton or tron the source chain's primary bridge
\* contract is never read and never resolved, even when it is bound to the
\* token, and when it is the only candidate bound to the token the call
\* rejects with UnsupportedToken; for any other target the primary contract,
\* where the chain defines one, is the first candidate read.
C22_PrimarySkippedForNonEvm ==
  \A c \in CallIds :
    Resolving(calls[c])
    => LET rec     == calls[c]
           src     == SourceChain(network)
           primary == BLOCKCHAINS[src].oftContract
           reads   == TokenReads(rec)
       IN IF rec.options.targetChain \in { "ton", "tron" }
            THEN /\ primary /= "" => primary \notin Range(reads) /\ rec.oftContract /= primary
                 /\ bound \subseteq { "oftContract" }
                      => RejectsWith(rec, "UnsupportedToken", rec.options.token)
            ELSE primary /= "" /\ reads /= << >> => reads[1] = primary

\* a call to ton on a chain whose primary contract alone is bound to the token
\* has read the legacy and the secondary-asset contracts, not the primary one,
\* and has been rejected
C22_Witness ==
  \E c \in CallIds :
    /\ impl = "approve"
    /\ network = 42161
    /\ bound = { "oftContract" }
    /\ calls[c].options.targetChain = "ton"
    /\ TokenReads(calls[c]) = << BLOCKCHAINS["arbitrum"].legacyMeshContract,
                                 BLOCKCHAINS["arbitrum"].xautOftContract >>
    /\ Threw(calls[c], "UnsupportedToken")

\* this step of call c asks the provider for the network's chain id
QueriesChainId(c) ==
  \E j \in (Len(calls[c].log) + 1) .. Len(calls'[c].log) :
    calls'[c].log[j].call = "getNetwork"

\* this step of call c takes the provider's answer to a chain id query
ChainIdAnswered(c) ==
  /\ calls[c].pc \in { "awaitNetwork", "awaitHelperNetwork" }
  /\ calls'[c].pc /= calls[c].pc

\* what the memoization allows one step to do to the cache and to call c
MemoizedStep(c) ==
  /\ QueriesChainId(c) => chainId = None
  /\ ChainIdAnswered(c) => chainId' = Some(network)
  /\ (calls[c].pc = "resolve" /\ IsSome(chainId) /\ calls'[c].source /= "")
       => (calls'[c].source = SourceChain(Val(chainId)))

\* C23: in the approve and noapprove implementations, over any sequence of
\* calls made one after the other, the network's chain id is queried only while
\* the cache is empty, the answer to a query fills the cache, a filled cache is
\* never emptied or changed, and a resolution made with a filled cache takes
\* the source chain from the cached value without a query.
C23_ChainIdMemoized ==
  [][ (impl \in { "approve", "noapprove" })
        => ( /\ (IsSome(chainId) => (chainId' = chainId))
             /\ \A c \in CallIds : MemoizedStep(c) ) ]_vars

\* a later call on the adapter has resolved its bridge contract from the
\* cached chain id, without a query of its own
C23_Witness ==
  \E c \in CallIds :
    /\ impl = "approve"
    /\ chainId = Some(42161)
    /\ calls[c].oftContract /= ""
    /\ CallCount(calls[c], "getNetwork") = 0

(***************************************************************************)
(* Two quoteBridge() calls in flight on one adapter: a call runs from one    *)
(* await to the next without interruption, and the other call may run        *)
(* between any two of its awaits. The adapter is the one with the chain id  *)
(* cache, over an executable account; its helper lookup comes after the      *)
(* resolver has filled the cache and so never queries the network itself     *)
(***************************************************************************)
InitConcurrent ==
  /\ Init
  /\ impl = "approve"
  /\ account.provider
  /\ HasSendTransaction(account.kind)
  /\ config = [ bridgeMaxFee |-> None ]

StepQuote(c) ==
  \/ \E o \in BridgeOptions : QuoteBridge(c, o, None)
  \/ ResolveChain(c)
  \/ GetNetworkReturns(c)
  \/ TokenReturns(c)
  \/ \E f \in Fees : OftQuoteSendReturns(c, f)
  \/ \E f \in Fees : HelperQuoteSendReturns(c, f)
  \/ \E fs \in FeeSeqs : SimulateReturns(c, fs)

NextConcurrent == StepQuote(1) \/ StepQuote(2)

SpecConcurrent == InitConcurrent /\ [][NextConcurrent]_vars

\* the bridge contract a call resolves when it runs alone: the first candidate
\* of the connected chain, in the fixed order, that is bound to the token
SoloContract(rec) ==
  LET src   == SourceChain(network)
      order == CandidateOrder(src, rec.options.targetChain)
      hits  == { j \in 1 .. Len(order) : ContractKeys[order[j]] \in bound }
  IN IF hits = {} THEN ""
     ELSE BLOCKCHAINS[src][ContractKeys[order[CHOOSE j \in hits : \A h \in hits : j <= h]]]

\* the outcome of a quoteBridge() that runs alone on the adapter, from its
\* inputs, the token bindings and the answers its collaborators gave it
SoloOutcome(rec) ==
  LET t   == rec.options.targetChain
      src == SourceChain(network)
      err(kind, arg) == [ status |-> "threw", error |-> [ kind |-> kind, arg |-> arg ],
                          result |-> NoResult ]
  IN CASE t \notin ChainNames -> err("UnsupportedChain", t)
       [] t \in ChainNames /\ src = "" -> err("TypeError", "configuration.chainId")
       [] t \in ChainNames /\ src /= "" /\ SoloContract(rec) = "" ->
            err("UnsupportedToken", rec.options.token)
       [] t \in ChainNames /\ src /= "" /\ SoloContract(rec) /= ""
            /\ ~Decodes(t, rec.options.recipient) ->
            err("InvalidRecipient", rec.options.recipient)
       [] t \in ChainNames /\ src /= "" /\ SoloContract(rec) /= ""
            /\ Decodes(t, rec.options.recipient)
            /\ InstanceOfWalletAccountEvmErc4337(account.kind)
            /\ BLOCKCHAINS[src].transactionValueHelper = "" ->
            err("UnsupportedOperation", ToString(network))
       [] OTHER ->
            [ status |-> "returned", error |-> NoError,
              result |-> [ fee |-> rec.simFees[1]
                                     + (IF Len(rec.simFees) > 1 THEN rec.simFees[2] ELSE 0),
                           bridgeFee |-> Val(rec.bridgeFee) ] ]

\* C24: with two quoteBridge() calls interleaved in any way on one adapter of
\* the approve implementation (both may start while the chain id cache is
\* empty, or one after the other has finished), each call resolves the bridge
\* contract and ends with the outcome it has when it runs alone with the same
\* token bindings and answers, and the cache, the only state the calls share,
\* never holds anything but the network's chain id.
C24_NoInterference ==
  /\ IsSome(chainId) => Val(chainId) = network
  /\ \A c \in CallIds :
       /\ calls[c].oftContract /= "" => calls[c].oftContract = SoloContract(calls[c])
       /\ calls[c].pc = "done" => calls[c].outcome = SoloOutcome(calls[c])

\* two calls that both started while the cache was empty, and both queried the
\* network, have returned quotes for different targets from different contracts
C24_Witness ==
  /\ CallCount(calls[1], "getNetwork") = 1
  /\ CallCount(calls[2], "getNetwork") = 1
  /\ Returned(calls[1]) /\ Returned(calls[2])
  /\ calls[1].options.targetChain = "ethereum"
  /\ calls[2].options.targetChain = "ton"
  /\ calls[1].oftContract /= calls[2].oftContract

\* C25: in the approve implementation, the transactions a call has built are
\* fixed by the account kind. Standard account: the bridge-send goes to the
\* resolved bridge contract with value equal to the nativeFee that contract
\* quoted, which is the bridgeFee reported, and the approval carries value 0.
\* Account-abstraction account: both calls carry value 0, the send goes to the
\* fee-conversion helper with the fee tuple (the bridge contract's nativeFee,
\* lzTokenFee 0), and the bridgeFee reported is the helper's quote.
C25_ValuesByAccountKind ==
  \A c \in CallIds :
    (impl = "approve" /\ IsSome(calls[c].oftTx))
    => LET rec     == calls[c]
           approve == Val(rec.approveTx)
           send    == Val(rec.oftTx)
           fee     == [ nativeFee |-> Val(rec.nativeFee), lzTokenFee |-> 0 ]
       IN /\ approve.value = 0
          /\ send.data.fee = fee
          /\ IF AccountAbstraction(account.kind)
               THEN /\ send.value = 0
                    /\ HelperQuoted(rec)
                    /\ send.to = rec.helper
               ELSE /\ send.value = Val(rec.nativeFee)
                    /\ send.to = rec.oftContract
                    /\ rec.bridgeFee = rec.nativeFee
          /\ Returned(rec) => rec.outcome.result.bridgeFee = Val(rec.bridgeFee)

\* C26: in the approve implementation, quoteBridge() on a read-only
\* account-abstraction account takes the account-abstraction path end to end,
\* as quoteBridge() and bridge() on an executable one do: the approval and the
\* send it builds are made out to the fee-conversion helper, it simulates them
\* as one bundle, and the bridgeFee it returns is the helper's quote.
C26_ReadOnlyTakesBundlePath ==
  \A c \in CallIds :
    ( /\ impl = "approve"
      /\ account.kind = "WalletAccountReadOnlyEvmErc4337"
      /\ calls[c].op = "quoteBridge"
      /\ IsSome(calls[c].oftTx) )
    => LET rec == calls[c]
       IN /\ HelperQuoted(rec)
          /\ Val(rec.approveTx).data.spender = rec.helper
          /\ Val(rec.oftTx).to = rec.helper
          /\ Val(rec.oftTx).value = 0
          /\ \A k \in 1 .. Len(rec.simulated) :
               rec.simulated[k].txs = << Val(rec.approveTx), Val(rec.oftTx) >>
          /\ Returned(rec)
               => rec.outcome.result = [ fee |-> rec.simFees[1], bridgeFee |-> Val(rec.bridgeFee) ]

\* C27: in the approve and requote implementations, every transaction or
\* bundle a bridge() call passes to sendTransaction was passed earlier in the
\* same call to quoteSendTransaction with the same destination, value and call
\* data.
C27_SentWasSimulated ==
  \A c \in CallIds :
    (impl \in { "approve", "requote" } /\ calls[c].op = "bridge")
    => \A k \in 1 .. Len(calls[c].sent) :
         \E j \in 1 .. Len(calls[c].simulated) :
           calls[c].simulated[j].txs = calls[c].sent[k].txs

\* the per-call config carries a paymasterToken and nothing else
PaymasterOnly(rec) ==
  /\ IsSome(rec.config)
  /\ IsSome(Val(rec.config).paymasterToken)
  /\ ~IsSome(Val(rec.config).bridgeMaxFee)

\* C28: in the approve, noapprove and parallel implementations, a bridge() on
\* an account-abstraction account that is given a per-call config with only a
\* paymasterToken is still held to the ceiling given at construction: when
\* fee + bridgeFee reaches that ceiling the call rejects with FeeExceeded and
\* submits nothing.
C28_CeilingSurvivesPaymasterConfig ==
  \A c \in CallIds :
    ( /\ impl /= "requote"
      /\ InstanceOfWalletAccountEvmErc4337(account.kind)
      /\ FeeChecked(calls[c])
      /\ PaymasterOnly(calls[c])
      /\ IsSome(config.bridgeMaxFee)
      /\ Total(calls[c]) >= Val(config.bridgeMaxFee) )
    => /\ calls[c].sent = << >>
       /\ Threw(calls[c], "FeeExceeded")

\* C29: in the approve and parallel implementations, when the approval's
\* sendTransaction rejects in the standard-account flow, bridge() rejects with
\* that error, the bridge-send is never submitted, and the approval is not
\* submitted again.
C29_FailedApprovalStopsSend ==
  \A c \in CallIds :
    ( /\ impl \in { "approve", "parallel" }
      /\ InstanceOfWalletAccountEvm(account.kind)
      /\ calls[c].op = "bridge"
      /\ Threw(calls[c], "WalletError")
      /\ calls[c].outcome.error.arg = "approveTx" )
    => /\ Len(calls[c].sent) = 1
       /\ calls[c].sent[1].txs = << Val(calls[c].approveTx) >>
       /\ CallCount(calls[c], "sendTransaction") = 1

(***************************************************************************)
(* The approval of the account-abstraction path over a range of amounts and  *)
(* helper quotes: one quoteBridge() from arbitrum to ethereum, on the        *)
(* adapter with integer arithmetic, up to the transactions it builds         *)
(***************************************************************************)
MaxApprovalAmount == 4

MaxHelperQuote == 21

InitApproval ==
  /\ Init
  /\ impl = "approve"
  /\ account = [ kind |-> "WalletAccountEvmErc4337", provider |-> TRUE ]
  /\ config = [ bridgeMaxFee |-> None ]
  /\ network = 42161
  /\ bound = { "oftContract" }

NextApproval ==
  \/ \E a \in 0 .. MaxApprovalAmount :
       QuoteBridge(1, [ targetChain |-> "ethereum", recipient |-> USER_ADDRESS,
                        token |-> TokenLower, amount |-> a ], None)
  \/ ResolveChain(1)
  \/ GetNetworkReturns(1)
  \/ TokenReturns(1)
  \/ OftQuoteSendReturns(1, 0)
  \/ \E q \in 0 .. MaxHelperQuote : HelperQuoteSendReturns(1, q)

SpecApproval == InitApproval /\ [][NextApproval]_vars

\* C30: in the approve implementation, the approval built on the
\* account-abstraction path covers the bridged amount plus the helper's
\* token-denominated fee: approveAmount >= amount + bridgeFee, and what it
\* approves beyond amount + bridgeFee is floor(bridgeFee / 10).
C30_ApprovalCoversFee ==
  \A c \in CallIds :
    ( /\ impl = "approve"
      /\ InstanceOfWalletAccountEvmErc4337(account.kind)
      /\ IsSome(calls[c].approveTx) )
    => LET approved  == Val(calls[c].approveTx).data.amount
           amount    == calls[c].options.amount
           bridgeFee == Val(calls[c].bridgeFee)
       IN /\ approved >= amount + bridgeFee
          /\ approved - amount - bridgeFee = bridgeFee \div 10

\* an approval of 23 has been built for amount 3 and a helper quote of 19:
\* the buffer is floor(19 / 10) = 1
C30_Witness ==
  \E c \in CallIds :
    /\ IsSome(calls[c].approveTx)
    /\ calls[c].options.amount = 3
    /\ calls[c].bridgeFee = Some(19)
    /\ Val(calls[c].approveTx).data.amount = 23
    /\ Val(calls[c].approveTx).data.spender = BLOCKCHAINS["arbitrum"].transactionValueHelper

====
